---- MODULE Spec2Model ----
(***************************************************************************)
(* Model of core/testcasecontroller/algorithm/module/module.py: the        *)
(* algorithm Module of Ianvs.  A Module is constructed from a              *)
(* configuration mapping (validation, field binding, hyperparameter        *)
(* expansion) and then asked for its module functions.                     *)
(*                                                                         *)
(* Python objects are modelled by value where the code cannot tell the     *)
(* difference and by reference (an index into heap) where it can: the      *)
(* candidate values of an axis and the values of the base hyperparameters  *)
(* may be mutable objects, and whether two hyperparameter mappings share   *)
(* one is what copy.deepcopy decides.                                      *)
(***************************************************************************)
EXTENDS Integers, Sequences, FiniteSets, TLC

VARIABLES
    config,                \* the caller's configuration mapping (a dict, in items() order)
    config0,               \* the configuration as the caller wrote it (never changes)
    heap,                  \* contents of the mutable objects, by reference
    pc,                    \* "new", "ready" (constructed) or "failed" (constructor raised)
    type,                  \* Module.type
    name,                  \* Module.name
    url,                   \* Module.url
    hyperparameters,       \* Module.hyperparameters
    hyperparameters_list,  \* Module.hyperparameters_list
    raised,                \* the exception the constructor raised
    registry,              \* sedna's ClassFactory registry (process-wide)
    result,                \* outcome of the last call on the Module
    mutated                \* index of the element of hyperparameters_list a consumer mutated

vars == <<config, config0, heap, pc, type, name, url, hyperparameters,
          hyperparameters_list, raised, registry, result, mutated>>

\* Longest hyperparameter declaration (number of non-reserved axes) explored.
MaxAxes == 2

----------------------------------------------------------------------------
(* Python values of the scalar configuration keys.                         *)

Str(s) == [t |-> "str", s |-> s, n |-> 0]
PyNone == [t |-> "none", s |-> "", n |-> 0]
PyInt(n) == [t |-> "int", s |-> "", n |-> n]

\* isinstance(v, str)
IsStr(v) == v.t = "str"

\* bool(v)
Truthy(v) ==
    CASE v.t = "str" -> v.s # ""
      [] v.t = "int" -> v.n # 0
      [] OTHER -> FALSE

(* Values held in hyperparameter mappings: an immutable number, or a       *)
(* reference to a mutable object (a list, a dict) whose content is         *)
(* heap[ref].  In a file's content ref = -1 marks a value that is a        *)
(* mutable object once loaded.                                             *)
Imm(n) == [ref |-> 0, n |-> n]
Ref(r) == [ref |-> r, n |-> 0]
Mut(n) == [ref |-> -1, n |-> n]

\* What a consumer sees of a value: whether it is mutable, and its content.
ViewVal(v, h) == [mut |-> v.ref # 0, n |-> IF v.ref > 0 THEN h[v.ref] ELSE v.n]
View(m, h) == [k \in DOMAIN m |-> ViewVal(m[k], h)]

EmptyMap == [k \in {} |-> Imm(0)]

\* dict.update: m2's entries win.
Update(m1, m2) ==
    [k \in DOMAIN m1 \cup DOMAIN m2 |-> IF k \in DOMAIN m2 THEN m2[k] ELSE m1[k]]

\* Keys of hyperparameter mappings, in the order a copy visits them.
KeyOrder == <<"a", "b", "c", "lr", "m", "z">>

(* A copy of mapping m that owns its mutable values: each gets a fresh     *)
(* object with the same content.  This is copy.deepcopy of a flat mapping  *)
(* (ref > 0) and the objects a YAML load builds (ref = -1).                *)
FreshCopy(m, h) ==
    LET mk == SelectSeq(KeyOrder, LAMBDA k : k \in DOMAIN m /\ m[k].ref # 0)
        pos(k) == CHOOSE p \in 1..Len(mk) : mk[p] = k
        content(v) == IF v.ref > 0 THEN h[v.ref] ELSE v.n
    IN  [m |-> [k \in DOMAIN m |->
                   IF m[k].ref # 0 THEN Ref(Len(h) + pos(k)) ELSE m[k]],
         h |-> h \o [p \in 1..Len(mk) |-> content(m[mk[p]])]]

\* copy.deepcopy(base_hps)
DeepCopy(m, h) == FreshCopy(m, h)

----------------------------------------------------------------------------
(* Exceptions.                                                             *)

Err(kind, msg, types, named, cap, cause) ==
    [kind |-> kind, msg |-> msg, types |-> types, named |-> named,
     cap |-> cap, cause |-> cause]
NoErr == Err("none", "", {}, PyNone, "", "")

----------------------------------------------------------------------------
(* Collaborators that live outside module.py.                              *)

\* core.common.constant.ModuleType: the values of its members.
ModuleTypes == {"basemodel", "hard_example_mining"}

\* The local files of the run.
OtherFiles == {"f1.yaml", "f2.yaml", "f3.yaml", "bad.yaml"}

\* utils.is_local_file
is_local_file(f) == f \in OtherFiles

\* Whether utils.yaml2dict can parse the file.
Parses(f) == f \in {"f1.yaml", "f2.yaml", "f3.yaml"}

\* What the file holds.
FileContent(f) ==
    CASE f = "f1.yaml" -> [a |-> Imm(1), b |-> Imm(2)]
      [] f = "f2.yaml" -> [b |-> Imm(3), c |-> Imm(4)]
      [] f = "f3.yaml" -> [m |-> Mut(5), a |-> Imm(6)]
      [] OTHER -> EmptyMap

\* utils.yaml2dict: a new mapping, with new objects, at each call.
yaml2dict(f, h) == FreshCopy(FileContent(f), h)

RECURSIVE Flatten(_)
Flatten(ss) == IF ss = <<>> THEN <<>> ELSE Head(ss) \o Flatten(Tail(ss))

(* generation_assistant.get_full_combinations: the cartesian product of    *)
(* the axes, first axis slowest, one mapping per tuple; element i of the   *)
(* tuple contributes {name_i: value_i}, so a later axis of the same name   *)
(* overwrites an earlier one.  The values are the candidates themselves,   *)
(* not copies.                                                             *)
\* One axis times the combinations of the axes after it.
Product(hd, rest) ==
    Flatten([i \in 1..Len(hd.values) |->
                [j \in 1..Len(rest) |->
                    Update([k \in {hd.name} |-> hd.values[i]], rest[j])]])

RECURSIVE get_full_combinations(_)
get_full_combinations(nvl) ==
    IF nvl = <<>> THEN <<EmptyMap>>
    ELSE Product(Head(nvl), get_full_combinations(Tail(nvl)))

----------------------------------------------------------------------------
(* Hyperparameter expansion.                                               *)

\* One entry of the hyperparameters declaration: the single-key dict
\* {name: {"values": [...]}}.  For other_hyperparameters the values are
\* file paths, kept in files.
Axis(n, vs) == [name |-> n, values |-> vs, files |-> <<>>, popped |-> FALSE]
Other(fs) == [name |-> "other_hyperparameters", values |-> <<>>, files |-> fs,
              popped |-> FALSE]
\* The entry after popitem(): an empty dict.
EmptyEle == [name |-> "", values |-> <<>>, files |-> <<>>, popped |-> TRUE]

RECURSIVE OtherLoop(_, _, _, _)

\* The merge with the precedence reversed: a key keeps its first value.
MergeFileEarlierWins(files, i, base, other_hps) ==
    OtherLoop(files, i + 1, Update(other_hps.m, base), other_hps.h)

\* base_hps.update(**other_hps), and on to the next file.
MergeFile(files, i, base, other_hps) ==
    OtherLoop(files, i + 1, Update(base, other_hps.m), other_hps.h)

\* The loop of _parse_other_hyperparameters, from file i on.
OtherLoop(files, i, base, h) ==
    IF i > Len(files) THEN [err |-> NoErr, base |-> base, h |-> h]
    ELSE IF ~is_local_file(files[i])
    THEN [err |-> Err("RuntimeError", "not found other hyperparameters config file",
                      {}, Str(files[i]), "", ""),
          base |-> base, h |-> h]
    ELSE IF ~Parses(files[i])
    THEN [err |-> Err("RuntimeError", "other hyperparameters config file is unvild",
                      {}, Str(files[i]), "", "YAMLError"),
          base |-> base, h |-> h]
    ELSE MergeFile(files, i, base, yaml2dict(files[i], h))

\* Module._parse_other_hyperparameters
ParseOtherHyperparameters(config_files, h) == OtherLoop(config_files, 1, EmptyMap, h)

RECURSIVE BuildHpsList(_, _, _, _)

\* base_hps_copy.update(**hp_combinations); hps_list.append(base_hps_copy)
AppendCombination(combos, i, base_hps, list, base_hps_copy) ==
    BuildHpsList(combos, i + 1, base_hps,
                 [list |-> Append(list, Update(base_hps_copy.m, combos[i])),
                  h |-> base_hps_copy.h])

\* The loop at the end of _parse_hyperparameters: one owned mapping per
\* combination.
BuildHpsList(combos, i, base_hps, acc) ==
    IF i > Len(combos) THEN acc
    ELSE AppendCombination(combos, i, base_hps, acc.list, DeepCopy(base_hps, acc.h))

RECURSIVE AxesLoop(_, _, _, _, _)

\* base_hps = self._parse_other_hyperparameters(hp_values)
SetBase(after, i, base_hps, nvl, r) ==
    IF r.err.kind # "none"
    THEN [err |-> r.err, decl |-> after, base |-> base_hps, nvl |-> nvl, h |-> r.h]
    ELSE AxesLoop(after, i + 1, r.base, nvl, r.h)

\* One entry: ele.popitem(), then by its name.
Entry(after, i, base_hps, nvl, h, ele) ==
    IF ele.name = "other_hyperparameters"
    THEN SetBase(after, i, base_hps, nvl, ParseOtherHyperparameters(ele.files, h))
    ELSE AxesLoop(after, i + 1, base_hps,
                  Append(nvl, [name |-> ele.name, values |-> ele.values]), h)

\* The first loop of _parse_hyperparameters, from entry i on.
AxesLoop(decl, i, base_hps, nvl, h) ==
    IF i > Len(decl)
    THEN [err |-> NoErr, decl |-> decl, base |-> base_hps, nvl |-> nvl, h |-> h]
    ELSE IF decl[i].popped
    THEN [err |-> Err("KeyError", "popitem(): dictionary is empty", {}, PyNone, "", ""),
          decl |-> decl, base |-> base_hps, nvl |-> nvl, h |-> h]
    ELSE Entry([decl EXCEPT ![i] = EmptyEle], i, base_hps, nvl, h, decl[i])

\* What _parse_hyperparameters returns.
Expanded(r, b) == [err |-> NoErr, decl |-> r.decl, list |-> b.list, h |-> b.h]

\* The expansion with its loop started one combination late.
ExpandDropsFirst(r) ==
    IF r.err.kind # "none"
    THEN [err |-> r.err, decl |-> r.decl, list |-> <<>>, h |-> r.h]
    ELSE Expanded(r, BuildHpsList(get_full_combinations(r.nvl), 2, r.base,
                                  [list |-> <<>>, h |-> r.h]))

\* _parse_hyperparameters after its first loop.
Expand(r) ==
    IF r.err.kind # "none"
    THEN [err |-> r.err, decl |-> r.decl, list |-> <<>>, h |-> r.h]
    ELSE Expanded(r, BuildHpsList(get_full_combinations(r.nvl), 1, r.base,
                                  [list |-> <<>>, h |-> r.h]))

\* Module._parse_hyperparameters: the list, the declaration as popitem()
\* leaves it, and the heap; or the exception.
ParseHyperparameters(decl, h) == Expand(AxesLoop(decl, 1, EmptyMap, <<>>, h))

----------------------------------------------------------------------------
(* Construction: Module.__init__, _parse_config, _check_fields.            *)

\* One item of the configuration mapping.  The value of the
\* hyperparameters key is the declaration list, kept in decl.
Item(k, v) == [k |-> k, v |-> v, decl |-> <<>>]
HpItem(d) == [k |-> "hyperparameters", v |-> PyNone, decl |-> d]

\* Module.hyperparameters: None, the declaration list of the configuration
\* (the same object, not a copy), or element idx of hyperparameters_list
\* (the same object), as the caller binds it before a call.
HpNone == [t |-> "none", idx |-> 0]
HpRaw == [t |-> "raw", idx |-> 0]
HpElem(i) == [t |-> "elem", idx |-> i]

\* Module.hyperparameters_list: None, the expanded list, or whatever value
\* the configuration gave under that key.
HplNone == [t |-> "none", l |-> <<>>, v |-> PyNone]
HplList(l) == [t |-> "list", l |-> l, v |-> PyNone]
HplOther(v) == [t |-> "other", l |-> <<>>, v |-> v]

\* The instance attributes set in __init__: the keys of self.__dict__.
InstanceDict == {"type", "name", "url", "hyperparameters", "hyperparameters_list"}

\* The checks with the membership test passed by every string.
CheckFieldsAnyStringType(ty, nm, u) ==
    IF ~Truthy(ty) /\ ~IsStr(ty)
    THEN Err("ValueError", "module type must be provided and be string type",
             {}, ty, "", "")
    ELSE IF ~IsStr(ty)
    THEN Err("ValueError", "not support module type", ModuleTypes, ty, "", "")
    ELSE IF ~Truthy(nm) /\ ~IsStr(nm)
    THEN Err("ValueError", "module name must be provided and be string type",
             {}, nm, "", "")
    ELSE IF ~IsStr(u)
    THEN Err("ValueError", "module url must be string type", {}, u, "", "")
    ELSE NoErr

\* Module._check_fields
CheckFields(ty, nm, u) ==
    IF ~Truthy(ty) /\ ~IsStr(ty)
    THEN Err("ValueError", "module type must be provided and be string type",
             {}, ty, "", "")
    ELSE IF ~(IsStr(ty) /\ ty.s \in ModuleTypes)
    THEN Err("ValueError", "not support module type", ModuleTypes, ty, "", "")
    ELSE IF ~Truthy(nm) /\ ~IsStr(nm)
    THEN Err("ValueError", "module name must be provided and be string type",
             {}, nm, "", "")
    ELSE IF ~IsStr(u)
    THEN Err("ValueError", "module url must be string type", {}, u, "", "")
    ELSE NoErr

\* The object with hyperparameters_list initialised to an empty list.
NewModuleEmptyList(cfg, h) ==
    [type |-> Str(""), name |-> Str(""), url |-> Str(""),
     hyperparameters |-> HpNone, hyperparameters_list |-> HplList(<<>>),
     config |-> cfg, h |-> h, err |-> NoErr]

\* The object as __init__ leaves it before _parse_config.
NewModule(cfg, h) ==
    [type |-> Str(""), name |-> Str(""), url |-> Str(""),
     hyperparameters |-> HpNone, hyperparameters_list |-> HplNone,
     config |-> cfg, h |-> h, err |-> NoErr]

\* self.__dict__[k] = v
Bind(st, item) ==
    CASE item.k = "type" -> [st EXCEPT !.type = item.v]
      [] item.k = "name" -> [st EXCEPT !.name = item.v]
      [] item.k = "url" -> [st EXCEPT !.url = item.v]
      [] item.k = "hyperparameters" -> [st EXCEPT !.hyperparameters = HpRaw]
      [] item.k = "hyperparameters_list" ->
             [st EXCEPT !.hyperparameters_list = HplOther(item.v)]
      [] OTHER -> st

RECURSIVE ItemsLoop(_, _)

\* self.hyperparameters_list = self._parse_hyperparameters(v), then the
\* binding of the key, which is an instance attribute too.
BindExpansion(st, i, item, r) ==
    IF r.err.kind # "none"
    THEN [st EXCEPT !.config[i].decl = r.decl, !.h = r.h, !.err = r.err]
    ELSE ItemsLoop(Bind([st EXCEPT !.config[i].decl = r.decl, !.h = r.h,
                                   !.hyperparameters_list = HplList(r.list)],
                        item),
                   i + 1)

\* One item of config.items().
BindItem(st, i, item) ==
    IF item.k = "hyperparameters"
    THEN BindExpansion(st, i, item, ParseHyperparameters(item.decl, st.h))
    ELSE ItemsLoop(IF item.k \in InstanceDict THEN Bind(st, item) ELSE st, i + 1)

\* The loop of _parse_config, from item i on.
ItemsLoop(st, i) == IF i > Len(st.config) THEN st ELSE BindItem(st, i, st.config[i])

\* self._check_fields() at the end of _parse_config.
Checked(bound) ==
    IF bound.err.kind # "none" THEN bound
    ELSE [bound EXCEPT !.err = CheckFields(bound.type, bound.name, bound.url)]

\* Module._parse_config
ParseConfig(st) == Checked(ItemsLoop(st, 1))

\* Module.__init__
ModuleInit(cfg, h) == ParseConfig(NewModule(cfg, h))

NoResult ==
    [kind |-> "none", op |-> "", err |-> NoErr, method |-> PyNone,
     hasParam |-> FALSE, param |-> HpNone, loads |-> 0, lookups |-> 0,
     ctorRaised |-> FALSE, arg |-> ""]

\* The Module, or the exception, that Module(config) leaves.
Constructed(m) ==
    /\ pc' = IF m.err.kind = "none" THEN "ready" ELSE "failed"
    /\ raised' = m.err
    /\ type' = m.type
    /\ name' = m.name
    /\ url' = m.url
    /\ hyperparameters' = m.hyperparameters
    /\ hyperparameters_list' = m.hyperparameters_list
    /\ config' = m.config
    /\ heap' = m.h

\* Module(config)
Construct ==
    /\ pc = "new"
    /\ Constructed(ModuleInit(config, heap))
    /\ UNCHANGED <<config0, registry, result, mutated>>

----------------------------------------------------------------------------
(* The module functions.                                                   *)

\* utils.load_module: whether importing the file succeeds, and the classes
\* its import registers with ClassFactory.
LoadsOk(u) == u = "ok.py"
Registers(u) ==
    IF u = "ok.py" THEN {<<"general", "M">>, <<"hem", "H">>} ELSE {}

\* bool(self.hyperparameters): a non-empty list or dict.
HpTruthy ==
    CASE hyperparameters.t = "raw" ->
             \E i \in 1..Len(config) :
                 config[i].k = "hyperparameters" /\ config[i].decl # <<>>
      [] hyperparameters.t = "elem" ->
             DOMAIN hyperparameters_list.l[hyperparameters.idx] # {}
      [] OTHER -> FALSE

(* The body of the try block of both functions: load the module, look the  *)
(* class up, construct it with **self.hyperparameters.  cause names the    *)
(* exception the block raised, "" if none.  ctorOk is whether the class's  *)
(* constructor accepts the keyword arguments.                              *)
TryLoad(ns, ctorOk) ==
    LET loadOk == LoadsOk(url.s)
        reg == IF loadOk THEN registry \cup Registers(url.s) ELSE registry
        found == IsStr(name) /\ <<ns, name.s>> \in reg
        isMapping == hyperparameters.t = "elem"
    IN  [registry |-> reg,
         lookups |-> IF loadOk THEN 1 ELSE 0,
         ctorRaised |-> loadOk /\ found /\ isMapping /\ ~ctorOk,
         cause |-> IF ~loadOk THEN "ImportError"
                   ELSE IF ~found THEN "ValueError"
                   ELSE IF ~isMapping THEN "TypeError"
                   ELSE IF ~ctorOk THEN "ConstructorError"
                   ELSE ""]

Instance(op, t) ==
    [NoResult EXCEPT !.kind = "instance", !.op = op, !.method = name,
                     !.hasParam = TRUE, !.param = hyperparameters,
                     !.loads = 1, !.lookups = t.lookups]

Wrapped(op, cap, t) ==
    [NoResult EXCEPT !.kind = "error", !.op = op,
                     !.err = Err("RuntimeError", cap \o " module loads class failed",
                                 {}, name, cap, t.cause),
                     !.loads = 1, !.lookups = t.lookups,
                     !.ctorRaised = t.ctorRaised]

\* What the try block of a module function leaves: the instance, or the
\* exception wrapped in a RuntimeError.
Tried(op, cap, t) ==
    [registry |-> t.registry,
     result |-> IF t.cause = "" THEN Instance(op, t) ELSE Wrapped(op, cap, t)]

\* Module.basemodel_func: the new registry and the outcome.
BasemodelResult(ctorOk) ==
    IF ~Truthy(url)
    THEN [registry |-> registry,
          result |-> [NoResult EXCEPT !.kind = "error", !.op = "basemodel_func",
                         !.err = Err("ValueError",
                                     "url of basemodel module must be provided",
                                     {}, url, "basemodel", "")]]
    ELSE Tried("basemodel_func", "basemodel", TryLoad("general", ctorOk))

\* The built-in hard example mining description.
BuiltIn ==
    [NoResult EXCEPT !.kind = "builtin", !.op = "hard_example_mining_func",
                     !.method = name, !.hasParam = HpTruthy,
                     !.param = IF HpTruthy THEN hyperparameters ELSE HpNone]

\* The built-in description with param set unconditionally.
MiningAlwaysHasParam(ctorOk) ==
    IF Truthy(url)
    THEN Tried("hard_example_mining_func", "hard_example_mining",
               TryLoad("hem", ctorOk))
    ELSE [registry |-> registry,
          result |-> [BuiltIn EXCEPT !.hasParam = TRUE, !.param = hyperparameters]]

\* A failure of the try block answered by the built-in description.
MiningSwallowsFailure(ctorOk) ==
    IF Truthy(url) /\ TryLoad("hem", ctorOk).cause = ""
    THEN Tried("hard_example_mining_func", "hard_example_mining",
               TryLoad("hem", ctorOk))
    ELSE [registry |-> registry, result |-> BuiltIn]

\* Module.hard_example_mining_func: the new registry and the outcome.
HardExampleMiningResult(ctorOk) ==
    IF Truthy(url)
    THEN Tried("hard_example_mining_func", "hard_example_mining",
               TryLoad("hem", ctorOk))
    ELSE [registry |-> registry, result |-> BuiltIn]

\* The attributes of a Module that are methods.
Methods ==
    {"_check_fields", "basemodel_func", "hard_example_mining_func",
     "get_module_func", "_parse_config", "_parse_hyperparameters",
     "_parse_other_hyperparameters"}

Getattr(func_name, module_type) ==
    IF func_name \in Methods
    THEN [NoResult EXCEPT !.kind = "callable", !.op = "get_module_func",
                          !.method = Str(func_name), !.arg = module_type]
    ELSE IF func_name \in InstanceDict
    THEN [NoResult EXCEPT !.kind = "value", !.op = "get_module_func",
                          !.method = Str(func_name), !.arg = module_type]
    ELSE [NoResult EXCEPT !.kind = "error", !.op = "get_module_func",
                          !.err = Err("AttributeError", "object has no attribute",
                                      {}, Str(func_name), "", ""),
                          !.arg = module_type]

\* The lookup without the "_func" suffix.
LooksUpBareType(module_type) == Getattr(module_type, module_type)

\* Module.get_module_func
GetModuleFuncResult(module_type) == Getattr(module_type \o "_func", module_type)

\* The capability-type names a caller asks for: those of the enumeration
\* and two it does not have.
ModuleTypeArgs == ModuleTypes \cup {"task_definition", ""}

\* The call returns, or raises, r.result.
Returned(r) == registry' = r.registry /\ result' = r.result

BasemodelFunc ==
    /\ pc = "ready"
    /\ mutated = 0
    /\ \E ctorOk \in BOOLEAN : Returned(BasemodelResult(ctorOk))
    /\ UNCHANGED <<config, config0, heap, pc, type, name, url, hyperparameters,
                   hyperparameters_list, raised, mutated>>

HardExampleMiningFunc ==
    /\ pc = "ready"
    /\ mutated = 0
    /\ \E ctorOk \in BOOLEAN : Returned(HardExampleMiningResult(ctorOk))
    /\ UNCHANGED <<config, config0, heap, pc, type, name, url, hyperparameters,
                   hyperparameters_list, raised, mutated>>

GetModuleFunc ==
    /\ pc = "ready"
    /\ mutated = 0
    /\ \E module_type \in ModuleTypeArgs : result' = GetModuleFuncResult(module_type)
    /\ UNCHANGED <<config, config0, heap, pc, type, name, url, hyperparameters,
                   hyperparameters_list, raised, registry, mutated>>

----------------------------------------------------------------------------
(* The caller of the Module: it binds one element of hyperparameters_list  *)
(* to Module.hyperparameters before asking for a module function, and a    *)
(* consumer of the list may change an element it was handed.               *)

SetHyperparameters ==
    /\ pc = "ready"
    /\ mutated = 0
    /\ hyperparameters_list.t = "list"
    /\ \E i \in 1..Len(hyperparameters_list.l) : hyperparameters' = HpElem(i)
    /\ result' = NoResult
    /\ UNCHANGED <<config, config0, heap, pc, type, name, url,
                   hyperparameters_list, raised, registry, mutated>>

CanMutate ==
    /\ pc = "ready"
    /\ mutated = 0
    /\ result = NoResult
    /\ hyperparameters_list.t = "list"

\* hps[k] = 9: replaces the value of a key, or adds the key.
SetKey ==
    /\ CanMutate
    /\ \E i \in 1..Len(hyperparameters_list.l), k \in {"b", "z"} :
           /\ hyperparameters_list' =
                  [hyperparameters_list EXCEPT
                      !.l[i] = Update(@, [x \in {k} |-> Imm(9)])]
           /\ mutated' = i
    /\ UNCHANGED <<config, config0, heap, pc, type, name, url, hyperparameters,
                   raised, registry, result>>

\* del hps[k]
DelKey ==
    /\ CanMutate
    /\ \E i \in 1..Len(hyperparameters_list.l) :
           \E k \in DOMAIN hyperparameters_list.l[i] :
               /\ hyperparameters_list' =
                      [hyperparameters_list EXCEPT
                          !.l[i] = [x \in DOMAIN @ \ {k} |-> @[x]]]
               /\ mutated' = i
    /\ UNCHANGED <<config, config0, heap, pc, type, name, url, hyperparameters,
                   raised, registry, result>>

\* hps[k].append(...) and the like: the object the value refers to changes.
MutateInPlace ==
    /\ CanMutate
    /\ \E i \in 1..Len(hyperparameters_list.l) :
           \E k \in DOMAIN hyperparameters_list.l[i] :
               /\ hyperparameters_list.l[i][k].ref > 0
               /\ heap' = [heap EXCEPT ![hyperparameters_list.l[i][k].ref] = @ + 1]
               /\ mutated' = i
    /\ UNCHANGED <<config, config0, pc, type, name, url, hyperparameters,
                   hyperparameters_list, raised, registry, result>>

----------------------------------------------------------------------------
(* The configurations explored.                                            *)

TypeVals ==
    {Str(""), Str("basemodel"), Str("hard_example_mining"), Str("bogus"),
     PyNone, PyInt(7)}
NameVals == {Str(""), Str("M"), Str("H"), PyNone, PyInt(7)}
UrlVals == {Str(""), Str("ok.py"), Str("broken.py"), PyNone, PyInt(7)}

\* The key absent, or present with one of the values.
Opt(k, vals) == {<<>>} \cup {<<Item(k, v)>> : v \in vals}

\* Object 1 of the heap is a mutable candidate value the caller wrote.
CandidateLists ==
    {<<>>, <<Imm(1)>>, <<Imm(1), Ref(1)>>, <<Imm(2), Imm(2)>>}
AxisEntries == {Axis(n, vs) : n \in {"b", "lr"}, vs \in CandidateLists}
OtherEntries ==
    {Other(fs) : fs \in {<<"f1.yaml", "f2.yaml">>, <<"f2.yaml", "f1.yaml">>,
                         <<"f3.yaml">>, <<"f1.yaml", "gone.yaml">>, <<"bad.yaml">>}}

AxisSeqs == UNION {[1..n -> AxisEntries] : n \in 0..MaxAxes}

\* Declarations: up to MaxAxes axes, and other_hyperparameters before or
\* after them, or absent.
Decls ==
    AxisSeqs \cup {<<o>> \o s : o \in OtherEntries, s \in AxisSeqs}
             \cup {s \o <<o>> : o \in OtherEntries, s \in AxisSeqs}

SmallDecls ==
    {<<>>,
     <<Axis("lr", <<Imm(1), Ref(1)>>)>>,
     <<Other(<<"f1.yaml", "f2.yaml">>)>>,
     <<Other(<<"f3.yaml">>), Axis("b", <<Imm(1), Ref(1)>>)>>,
     <<Axis("b", <<Imm(1)>>), Other(<<"f1.yaml", "gone.yaml">>)>>,
     <<Other(<<"bad.yaml">>)>>}

ExtraItems ==
    {<<>>, <<Item("foo", PyInt(7))>>, <<Item("hyperparameters_list", PyInt(7))>>}

Configs ==
    LET scalars == {t \o n \o u : t \in Opt("type", TypeVals),
                                  n \in Opt("name", NameVals),
                                  u \in Opt("url", UrlVals)}
        hps == {<<>>} \cup {<<HpItem(d)>> : d \in SmallDecls}
    IN  {s \o h \o x : s \in scalars, h \in hps, x \in ExtraItems}
        \cup {s \o x \o h : s \in scalars, h \in hps, x \in ExtraItems}

ExpandConfigs ==
    {<<Item("type", Str("hard_example_mining")), Item("name", Str("M")),
       Item("url", Str("")), HpItem(d)>> : d \in Decls}

InitWith(cfgs) ==
    /\ config \in cfgs
    /\ config0 = config
    /\ heap = <<0>>
    /\ pc = "new"
    /\ type = Str("")
    /\ name = Str("")
    /\ url = Str("")
    /\ hyperparameters = HpNone
    /\ hyperparameters_list = HplNone
    /\ raised = NoErr
    /\ registry = {}
    /\ result = NoResult
    /\ mutated = 0

Init == InitWith(Configs)
InitExpand == InitWith(ExpandConfigs)

Next ==
    \/ Construct
    \/ BasemodelFunc
    \/ HardExampleMiningFunc
    \/ GetModuleFunc
    \/ SetHyperparameters
    \/ SetKey
    \/ DelKey
    \/ MutateInPlace

\* Construction and calls, over the configurations of the scalar keys.
Spec == Init /\ [][Next]_vars

\* The same, over the hyperparameter declarations.
SpecExpand == InitExpand /\ [][Next]_vars

----------------------------------------------------------------------------
(* What the caller wrote, read from config0.                               *)

CfgHas(k) == \E i \in 1..Len(config0) : config0[i].k = k
CfgItem(k) == config0[CHOOSE i \in 1..Len(config0) : config0[i].k = k]

\* The declaration under the hyperparameters key, its non-reserved axes
\* and the files of its other_hyperparameters entry.
Declared == IF CfgHas("hyperparameters") THEN CfgItem("hyperparameters").decl ELSE <<>>
DeclaredAxes == SelectSeq(Declared, LAMBDA e : e.name # "other_hyperparameters")
DeclaredFiles ==
    IF \E i \in 1..Len(Declared) : Declared[i].name = "other_hyperparameters"
    THEN Declared[CHOOSE i \in 1..Len(Declared) :
                      Declared[i].name = "other_hyperparameters"].files
    ELSE <<>>

\* Some override file is missing or cannot be parsed.
DeclaredFileFails ==
    \E j \in 1..Len(DeclaredFiles) :
        DeclaredFiles[j] \notin {"f1.yaml", "f2.yaml", "f3.yaml"}

InEnumeration(v) == v.t = "str" /\ v.s \in {"basemodel", "hard_example_mining"}
TypeInvalid == ~CfgHas("type") \/ ~InEnumeration(CfgItem("type").v)
FalsyNonString(v) == v.t = "none" \/ (v.t = "int" /\ v.n = 0)

\* The left-to-right merge of the override files, later files winning, as
\* a consumer sees it.
MergedBase ==
    LET has(j, k) == k \in DOMAIN FileContent(DeclaredFiles[j])
        keys == UNION {DOMAIN FileContent(DeclaredFiles[j]) : j \in 1..Len(DeclaredFiles)}
        last(k) == CHOOSE j \in 1..Len(DeclaredFiles) :
                       has(j, k) /\ \A j2 \in (j + 1)..Len(DeclaredFiles) : ~has(j2, k)
    IN  [k \in keys |->
            [mut |-> FileContent(DeclaredFiles[last(k)])[k].ref # 0,
             n |-> FileContent(DeclaredFiles[last(k)])[k].n]]

\* The expanded list as construction left it.
Fresh == pc = "ready" /\ mutated = 0 /\ hyperparameters_list.t = "list"
Hps == hyperparameters_list.l
HpsView(p) == View(Hps[p], heap)

----------------------------------------------------------------------------
(* C1 as stated: a configuration whose type is missing, empty or not in    *)
(* the enumeration fails construction with the error that lists the        *)
(* accepted enumeration values, whatever the other keys hold; a            *)
(* constructed Module has a type of the enumeration.                       *)
C1_InvalidTypeListsEnumeration ==
    /\ (pc # "new" /\ TypeInvalid) =>
           /\ pc = "failed"
           /\ raised.kind = "ValueError"
           /\ raised.types = {"basemodel", "hard_example_mining"}
    /\ pc = "ready" => InEnumeration(type)

(* C1 amended: such a configuration always fails construction, and a       *)
(* constructed Module has a type of the enumeration; the error lists the   *)
(* enumeration unless the hyperparameter expansion raised first (its       *)
(* RuntimeError) or the type is a falsy non-string such as null (the       *)
(* "must be provided and be string type" ValueError, without the list).    *)
C1_InvalidTypeFails ==
    /\ (pc # "new" /\ TypeInvalid) =>
           /\ pc = "failed"
           /\ IF DeclaredFileFails
              THEN raised.kind = "RuntimeError" /\ raised.types = {}
              ELSE IF CfgHas("type") /\ FalsyNonString(CfgItem("type").v)
              THEN /\ raised.kind = "ValueError"
                   /\ raised.msg = "module type must be provided and be string type"
                   /\ raised.types = {}
              ELSE /\ raised.kind = "ValueError"
                   /\ raised.msg = "not support module type"
                   /\ raised.types = {"basemodel", "hard_example_mining"}
    /\ pc = "ready" => InEnumeration(type)

\* C1's case: an unknown type, with a name, a url and hyperparameters
\* given, is refused with the enumeration listed.
C1_Witness ==
    /\ pc = "failed"
    /\ CfgHas("type") /\ CfgItem("type").v = Str("bogus")
    /\ CfgHas("name") /\ CfgHas("url") /\ CfgHas("hyperparameters")
    /\ raised.types = {"basemodel", "hard_example_mining"}

(* C2 as stated: with a valid type, construction fails whenever name is    *)
(* missing, empty or not a string, and whenever url is not a string.       *)
C2_NameAndUrlValidated ==
    LET badName == ~CfgHas("name") \/ CfgItem("name").v.t # "str"
                   \/ CfgItem("name").v.s = ""
        badUrl == CfgHas("url") /\ CfgItem("url").v.t # "str"
    IN  /\ (pc # "new" /\ ~TypeInvalid /\ (badName \/ badUrl)) => pc = "failed"
        /\ pc = "ready" => (name.t = "str" /\ name.s # "" /\ url.t = "str")

(* C3 as stated: after a successful construction hyperparameters_list is   *)
(* never null; without a hyperparameters key, or without axes, it is the   *)
(* one-element list of the base mapping.                                   *)
C3_ListNeverNull ==
    pc = "ready" /\ mutated = 0 =>
        /\ hyperparameters_list.t # "none"
        /\ DeclaredAxes = <<>> =>
               /\ hyperparameters_list.t = "list"
               /\ Len(Hps) = 1
               /\ HpsView(1) = MergedBase

(* C3 amended: after a successful construction from a configuration that   *)
(* has no hyperparameters_list key, hyperparameters_list is null exactly   *)
(* when the configuration has no hyperparameters key; with the key and no  *)
(* axes declared it is the one-element list of the base mapping.           *)
C3_ListNullOnlyWithoutKey ==
    (pc = "ready" /\ mutated = 0 /\ ~CfgHas("hyperparameters_list")) =>
        IF ~CfgHas("hyperparameters")
        THEN hyperparameters_list = HplNone
        ELSE /\ hyperparameters_list.t = "list"
             /\ DeclaredAxes = <<>> => (Len(Hps) = 1 /\ HpsView(1) = MergedBase)

\* C3's case: only override files declared, and the module constructed.
C3_Witness ==
    /\ Fresh
    /\ ~CfgHas("hyperparameters_list")
    /\ DeclaredAxes = <<>>
    /\ DeclaredFiles = <<"f1.yaml", "f2.yaml">>
    /\ Len(Hps) = 1

----------------------------------------------------------------------------
(* Expansion.                                                              *)

RECURSIVE SizeProduct(_)
SizeProduct(axes) ==
    IF axes = <<>> THEN 1 ELSE Len(Head(axes).values) * SizeProduct(Tail(axes))

\* The tuples of the cartesian product, by the positions of the candidates.
Tuples ==
    LET n == Len(DeclaredAxes)
        lens == {0} \cup {Len(DeclaredAxes[i].values) : i \in 1..n}
        longest == CHOOSE m \in lens : \A x \in lens : x <= m
    IN  {c \in [1..n -> 1..longest] :
            \A i \in 1..n : c[i] <= Len(DeclaredAxes[i].values)}

\* The candidate tuple c picks for axis i, as a consumer sees it.
Candidate(i, c) == ViewVal(DeclaredAxes[i].values[c[i]], heap)

\* Mapping p assigns every axis the candidate that tuple c picks for it.
Matches(p, c) ==
    \A i \in 1..Len(DeclaredAxes) :
        /\ DeclaredAxes[i].name \in DOMAIN Hps[p]
        /\ HpsView(p)[DeclaredAxes[i].name] = Candidate(i, c)

\* Tuples that pick equal values are one tuple of the product.
SameTuple(c, d) == \A i \in 1..Len(DeclaredAxes) : Candidate(i, c) = Candidate(i, d)

ProductLaw ==
    /\ \A p \in 1..Len(Hps) : \E c \in Tuples : Matches(p, c)
    /\ \A c \in Tuples :
           Cardinality({p \in 1..Len(Hps) : Matches(p, c)})
               = Cardinality({d \in Tuples : SameTuple(c, d)})

DistinctAxisNames ==
    \A i, j \in 1..Len(DeclaredAxes) :
        DeclaredAxes[i].name = DeclaredAxes[j].name => i = j

C5_BaseMergePrecedence ==
    Fresh =>
        LET base == MergedBase
            axisKeys == {DeclaredAxes[i].name : i \in 1..Len(DeclaredAxes)}
            candidates(k) ==
                UNION {{ViewVal(DeclaredAxes[i].values[j], heap) :
                           j \in 1..Len(DeclaredAxes[i].values)} :
                       i \in {x \in 1..Len(DeclaredAxes) : DeclaredAxes[x].name = k}}
            holds(m) ==
                \A k \in DOMAIN base :
                    /\ k \in DOMAIN m
                    /\ IF k \in axisKeys THEN m[k] \in candidates(k)
                       ELSE m[k] = base[k]
        IN  /\ \A p \in 1..Len(Hps) : holds(HpsView(p))
            /\ (DeclaredFiles = <<"f1.yaml", "f2.yaml">> /\ DeclaredAxes = <<>>) =>
                   HpsView(1) = [a |-> [mut |-> FALSE, n |-> 1],
                                 b |-> [mut |-> FALSE, n |-> 3],
                                 c |-> [mut |-> FALSE, n |-> 4]]

\* C5's case: the two files of the example and an axis named b, whose
\* candidate replaced the merged base value 3.
C5_Witness ==
    /\ Fresh
    /\ DeclaredFiles = <<"f1.yaml", "f2.yaml">>
    /\ Len(DeclaredAxes) = 1 /\ DeclaredAxes[1].name = "b"
    /\ Len(Hps) = 2
    /\ HpsView(1) = [a |-> [mut |-> FALSE, n |-> 1],
                     b |-> [mut |-> FALSE, n |-> 1],
                     c |-> [mut |-> FALSE, n |-> 4]]

(* C6 as stated: a mutation made through one element of                    *)
(* hyperparameters_list (a key added, removed or replaced, a value changed *)
(* in place) leaves every other element unchanged.  Stated here for the    *)
(* declarations whose axis names are distinct.                             *)
C6_ElementsIndependent ==
    [][(mutated = 0 /\ mutated' # 0 /\ DistinctAxisNames) =>
           \A j \in 1..Len(Hps) :
               j # mutated' =>
                   View(hyperparameters_list'.l[j], heap') = HpsView(j)]_vars

----------------------------------------------------------------------------
(* Module functions.                                                       *)

\* The current hyperparameters are a non-empty list or mapping.
CurrentHpNonEmpty ==
    \/ /\ hyperparameters.t = "raw"
       /\ \E i \in 1..Len(config) :
              config[i].k = "hyperparameters" /\ Len(config[i].decl) > 0
    \/ /\ hyperparameters.t = "elem"
       /\ \E k \in {"a", "b", "c", "lr", "m", "z"} : k \in DOMAIN Hps[hyperparameters.idx]

(* C7: with an empty url, hard_example_mining_func loads no module and     *)
(* looks nothing up, and returns {method: name, param: hyperparameters}    *)
(* when the current hyperparameters are non-empty, {method: name} alone    *)
(* when they are empty or unset.                                           *)
C7_MiningBuiltIn ==
    (result.op = "hard_example_mining_func" /\ url = Str("")) =>
        /\ result.kind = "builtin"
        /\ result.loads = 0 /\ result.lookups = 0 /\ registry = {}
        /\ result.method = name
        /\ IF CurrentHpNonEmpty
           THEN result.hasParam /\ result.param = hyperparameters
           ELSE ~result.hasParam

\* C7's case: the built-in description with the bound mapping as param.
C7_Witness ==
    /\ result.kind = "builtin"
    /\ name = Str("M")
    /\ hyperparameters.t = "elem"
    /\ result.hasParam /\ result.param = hyperparameters

\* The registry namespace and the capability of a module function.
Namespace(op) == IF op = "basemodel_func" THEN "general" ELSE "hem"
Capability(op) == IF op = "basemodel_func" THEN "basemodel" ELSE "hard_example_mining"

(* C8: with a non-empty url, when the registry lookup of name or the       *)
(* construction of the class with the hyperparameters fails, the call      *)
(* fails with one RuntimeError naming name and the capability type and     *)
(* carrying the original failure as its cause; nothing is returned.        *)
C8_FailuresWrapped ==
    LET op == result.op
        loaded == url.s = "ok.py"
        lookupFails == name.t # "str" \/ <<Namespace(op), name.s>> \notin registry
        constructionFails == hyperparameters.t # "elem" \/ result.ctorRaised
    IN  (op \in {"basemodel_func", "hard_example_mining_func"} /\ url.s # ""
         /\ loaded /\ (lookupFails \/ constructionFails)) =>
            /\ result.kind = "error"
            /\ result.err.kind = "RuntimeError"
            /\ result.err.named = name
            /\ result.err.cap = Capability(op)
            /\ result.err.cause =
                   IF lookupFails THEN "ValueError"
                   ELSE IF hyperparameters.t # "elem" THEN "TypeError"
                   ELSE "ConstructorError"

\* C8's case: the class is registered and its constructor raised.
C8_Witness ==
    /\ result.op = "hard_example_mining_func"
    /\ result.kind = "error"
    /\ result.err.cause = "ConstructorError"
    /\ <<"hem", name.s>> \in registry

(* C9: get_module_func(t) returns the resolution operation of t for every  *)
(* t of the enumeration, the Module's own type included, and fails with    *)
(* the missing-attribute error for a capability type without one.          *)
C9_AccessorTotal ==
    result.op = "get_module_func" =>
        IF result.arg \in {"basemodel", "hard_example_mining"}
        THEN /\ result.kind = "callable"
             /\ result.method = Str(result.arg \o "_func")
             /\ result.err = NoErr
        ELSE /\ result.kind = "error"
             /\ result.err.kind = "AttributeError"

\* C9's case: the accessor asked for the Module's own type.
C9_Witness ==
    /\ pc = "ready"
    /\ result.op = "get_module_func"
    /\ result.arg = type.s
    /\ result.kind = "callable"

(* C10 as stated: construction does not store the raw hyperparameters      *)
(* declaration in any field and leaves the caller's configuration, its     *)
(* axis entries included, unchanged.                                       *)
C10_RawDeclarationNotStored ==
    pc = "ready" => (hyperparameters.t # "raw" /\ config = config0)

====
